---- MODULE Spec2Model ----
(***************************************************************************)
(* Model of voc/python/utils.py: the Command tree and extract_command,     *)
(* the backward, stack-balance driven reconstruction of command trees      *)
(* from a linear list of bytecode instructions.                            *)
(*                                                                         *)
(* Python values are represented as follows.                               *)
(*   - an optional value (None or v) is the sequence <<>> or <<v>>;        *)
(*   - a list index is a Python integer: instructions[i] with i < 0        *)
(*     counts from the end of the list, and an index outside               *)
(*     -len .. len-1 raises IndexError;                                    *)
(*   - an uncaught exception unwinds every active call: the call stack     *)
(*     is emptied and status records the exception's name.                 *)
(***************************************************************************)
EXTENDS Integers, Sequences, FiniteSets, TLC

\* Longest instruction list explored.
MaxLen == 4

VARIABLES
    instructions,   \* the instruction list of one code unit (read-only)
    frames,         \* active calls of extract_command, innermost last
    cursor,         \* the driver's cursor
    commands,       \* the driver's collected commands, in collection order
    output,         \* the driver's result: <<>> until it finishes
    status,         \* "running", "done", or the name of the exception raised
    consumed,       \* history: list positions consumed as instructions[i], in order
    discarded       \* history: offsets of block openers dropped by a closer

vars == <<instructions, frames, cursor, commands, output, status, consumed, discarded>>

----------------------------------------------------------------------------
(* Generic helpers *)

RECURSIVE Reverse(_)
Reverse(s) == IF s = <<>> THEN <<>> ELSE Append(Reverse(Tail(s)), Head(s))

RECURSIVE SumSeq(_)
SumSeq(s) == IF s = <<>> THEN 0 ELSE Head(s) + SumSeq(Tail(s))

\* Python's a | b on non-negative integers.
RECURSIVE BitOr(_, _)
BitOr(a, b) ==
    IF a = 0 THEN b
    ELSE IF b = 0 THEN a
    ELSE (IF a % 2 = 1 \/ b % 2 = 1 THEN 1 ELSE 0) + 2 * BitOr(a \div 2, b \div 2)

----------------------------------------------------------------------------
(* The instruction records handed to extract_command (dis.Instruction) *)

\* opname and raw argument of the instructions explored; an instruction
\* without an argument has arg = argval = None.
Shapes ==
    { <<"LOAD_CONST", <<44>>>>,
      <<"BINARY_ADD", <<>>>>,
      <<"POP_TOP", <<>>>>,
      <<"DUP_TOP", <<>>>>,
      <<"BUILD_LIST", <<1>>>>,
      <<"BUILD_LIST", <<2>>>>,
      <<"SETUP_LOOP", <<2>>>>,
      <<"POP_BLOCK", <<>>>>,
      <<"EXTENDED_ARG", <<1>>>>,
      <<"NO_SUCH_OP", <<>>>> }

Instruction(shape, k) ==
    [opname |-> shape[1], arg |-> shape[2], argval |-> shape[2], offset |-> k]

\* The list whose k-th instruction has shape s[k] and offset k - 1.
InstructionList(s) == [k \in 1..Len(s) |-> Instruction(s[k], k - 1)]

----------------------------------------------------------------------------
(* The opcodes module: one class per opcode name *)

OpNames ==
    {"LOAD_CONST", "BINARY_ADD", "POP_TOP", "DUP_TOP", "BUILD_LIST",
     "SETUP_LOOP", "POP_BLOCK", "EXTENDED_ARG"}

\* OpType(argval) / OpType(): the operation object built from a class.
OpType(name, argument) ==
    [opname |-> name,
     argument |-> argument,
     consume_count |->
        CASE name = "BINARY_ADD" -> 2
          [] name \in {"POP_TOP", "DUP_TOP"} -> 1
          [] name = "BUILD_LIST" -> argument[1]
          [] OTHER -> 0,
     product_count |->
        CASE name \in {"LOAD_CONST", "BINARY_ADD", "BUILD_LIST"} -> 1
          [] name = "DUP_TOP" -> 2
          [] OTHER -> 0,
     start_block |-> name = "SETUP_LOOP",
     end_block |-> name = "POP_BLOCK"]

\* A lookup that never fails: every name is taken for an opcode class.
HasOpType_any(name) == TRUE

\* getattr(opcodes, opname) succeeds.
HasOpType(name) == name \in OpNames

----------------------------------------------------------------------------
(* class Command *)

Command(operation, offset) ==
    [operation |-> operation, offset |-> offset, arguments |-> <<>>]

RECURSIVE consume_count(_)
consume_count(c) ==
    SumSeq([k \in 1..Len(c.arguments) |-> consume_count(c.arguments[k])])
        + c.operation.consume_count

\* A product count that forgets the arguments' contributions.
product_count_own(c) == c.operation.product_count

RECURSIVE product_count(_)
product_count(c) ==
    SumSeq([k \in 1..Len(c.arguments) |-> product_count(c.arguments[k])])
        + c.operation.product_count

----------------------------------------------------------------------------
(* extract_command, lines 63-82: from the call to the new Command *)

Size == Len(instructions)

\* instructions[i] is defined.
InRange(i) == -Size <= i /\ i < Size

\* The list position Python's instructions[i] denotes.
Pos(i) == IF i >= 0 THEN i ELSE Size + i

At(i) == instructions[Pos(i) + 1]

\* i > 0 and instructions[i - 1].opname == 'EXTENDED_ARG'
Preceded(i) == i > 0 /\ At(i - 1).opname = "EXTENDED_ARG"

\* argval | extended.argval
Merge(argval, extended) == <<BitOr(argval[1], extended[1])>>

\* The exception the prologue of extract_command(instructions, c) raises,
\* "" when it raises none.
Raises(c) ==
    LET i == c - 1 IN
    IF ~InRange(i) THEN "IndexError"
    ELSE IF ~HasOpType(At(i).opname) THEN "AttributeError"
    ELSE IF Preceded(i) /\ (At(i).argval = <<>> \/ At(i - 1).argval = <<>>)
         THEN "TypeError"
    ELSE ""

\* The working index after the prologue.
IndexAfter(c) == IF Preceded(c - 1) THEN c - 2 ELSE c - 1

\* The list positions the prologue consumes, in the order it reads them.
ReadsOf(c) ==
    IF Preceded(c - 1) THEN <<Pos(c - 1), Pos(c - 2)>> ELSE <<Pos(c - 1)>>

\* The Command the prologue builds.
NewCommand(c) ==
    LET i == c - 1
        instruction == At(i)
        argval == IF Preceded(i) THEN Merge(instruction.argval, At(i - 1).argval)
                  ELSE instruction.argval
        opcode == IF instruction.arg = <<>> THEN OpType(instruction.opname, <<>>)
                  ELSE OpType(instruction.opname, argval)
    IN  Command(opcode, instruction.offset)

\* The activation record once the prologue has run: which branch of
\* lines 86-109 the call is in, and that branch's local variables.
NewFrame(c) ==
    LET cmd == NewCommand(c) IN
    [start |-> c,
     i |-> IndexAfter(c),
     cmd |-> cmd,
     branch |-> IF cmd.operation.end_block THEN "end_block"
                ELSE IF cmd.operation.start_block THEN "start_block"
                ELSE "stack",
     found_start |-> FALSE,
     stack |-> IF cmd.operation.end_block \/ cmd.operation.start_block THEN 0
               ELSE cmd.operation.consume_count,
     mark |-> Len(consumed)]

----------------------------------------------------------------------------
(* extract_command, lines 86-114: the loops and the return *)

Top == frames[Len(frames)]

\* The innermost call has reached one of its return statements.
Finished(f) ==
    \/ f.branch = "start_block"
    \/ f.branch = "end_block" /\ f.found_start
    \/ f.branch = "stack" /\ ~(f.stack > 0)

\* A return that leaves the arguments in gathering (backward) order.
Finalize_unreversed(cmd) == cmd

\* cmd.arguments.reverse() (the start_block return has no arguments).
Finalize(cmd) == [cmd EXCEPT !.arguments = Reverse(cmd.arguments)]

\* The pair (i, cmd) a finished call returns.
ReturnValue(f) == [i |-> f.i, cmd |-> Finalize(f.cmd)]

Init ==
    /\ \E n \in 1..MaxLen : \E s \in [1..n -> Shapes] :
            instructions = InstructionList(s)
    /\ frames = <<>>
    /\ cursor = Len(instructions)
    /\ commands = <<>>
    /\ output = <<>>
    /\ status = "running"
    /\ consumed = <<>>
    /\ discarded = {}

\* The cursor the next call of extract_command is made with, <<>> if
\* no call is due.
NextCall ==
    IF status # "running" THEN <<>>
    ELSE IF frames = <<>> THEN (IF cursor # 0 THEN <<cursor>> ELSE <<>>)
    ELSE IF Finished(Top) THEN <<>>
    ELSE <<Top.i>>

\* A call whose prologue completes: lines 63-82.
Enter ==
    /\ NextCall # <<>>
    /\ Raises(NextCall[1]) = ""
    /\ frames' = Append(frames, NewFrame(NextCall[1]))
    /\ consumed' = consumed \o ReadsOf(NextCall[1])
    /\ UNCHANGED <<instructions, cursor, commands, output, status, discarded>>

\* instructions[i] with i out of range (line 64).
RaiseIndexError ==
    /\ NextCall # <<>>
    /\ Raises(NextCall[1]) = "IndexError"
    /\ status' = "IndexError"
    /\ frames' = <<>>
    /\ UNCHANGED <<instructions, cursor, commands, output, consumed, discarded>>

\* getattr(opcodes, instruction.opname) with no such class (line 67).
RaiseAttributeError ==
    /\ NextCall # <<>>
    /\ Raises(NextCall[1]) = "AttributeError"
    /\ status' = "AttributeError"
    /\ frames' = <<>>
    /\ UNCHANGED <<instructions, cursor, commands, output, consumed, discarded>>

\* None | int (line 75).
RaiseTypeError ==
    /\ NextCall # <<>>
    /\ Raises(NextCall[1]) = "TypeError"
    /\ status' = "TypeError"
    /\ frames' = <<>>
    /\ UNCHANGED <<instructions, cursor, commands, output, consumed, discarded>>

\* Lines 89-93: a call returns into the block-closing loop of its caller.
ReturnToBlock ==
    /\ status = "running"
    /\ Len(frames) >= 2
    /\ Finished(Top)
    /\ frames[Len(frames) - 1].branch = "end_block"
    /\ LET r == ReturnValue(Top)
           n == Len(frames) - 1
           caller == frames[n]
       IN  IF r.cmd.operation.start_block
           THEN /\ frames' = [SubSeq(frames, 1, n) EXCEPT
                                ![n] = [caller EXCEPT !.i = r.i, !.found_start = TRUE]]
                /\ discarded' = discarded \cup {r.cmd.offset}
           ELSE /\ frames' = [SubSeq(frames, 1, n) EXCEPT
                                ![n] = [caller EXCEPT
                                          !.i = r.i,
                                          !.cmd.arguments = Append(@, r.cmd)]]
                /\ discarded' = discarded
    /\ UNCHANGED <<instructions, cursor, commands, output, status, consumed>>

\* Lines 107-109: a call returns into the stack-balance loop of its caller.
ReturnToStack ==
    /\ status = "running"
    /\ Len(frames) >= 2
    /\ Finished(Top)
    /\ frames[Len(frames) - 1].branch = "stack"
    /\ LET r == ReturnValue(Top)
           n == Len(frames) - 1
           caller == frames[n]
       IN  frames' = [SubSeq(frames, 1, n) EXCEPT
                        ![n] = [caller EXCEPT
                                  !.i = r.i,
                                  !.cmd.arguments = Append(@, r.cmd),
                                  !.stack = @ + consume_count(r.cmd) - product_count(r.cmd)]]
    /\ UNCHANGED <<instructions, cursor, commands, output, status, consumed, discarded>>

\* The outermost call returns to the driver, which keeps the command
\* and carries on from the returned cursor.
ReturnToDriver ==
    /\ status = "running"
    /\ Len(frames) = 1
    /\ Finished(Top)
    /\ LET r == ReturnValue(Top)
       IN  /\ cursor' = r.i
           /\ commands' = Append(commands, r.cmd)
    /\ frames' = <<>>
    /\ UNCHANGED <<instructions, output, status, consumed, discarded>>

\* The driver's loop ends when the cursor is 0; its output is the
\* collected commands in forward order.
DriverFinish ==
    /\ status = "running"
    /\ frames = <<>>
    /\ cursor = 0
    /\ output' = Reverse(commands)
    /\ status' = "done"
    /\ UNCHANGED <<instructions, frames, cursor, commands, consumed, discarded>>

Next ==
    \/ Enter
    \/ RaiseIndexError
    \/ RaiseAttributeError
    \/ RaiseTypeError
    \/ ReturnToBlock
    \/ ReturnToStack
    \/ ReturnToDriver
    \/ DriverFinish

Spec == Init /\ [][Next]_vars

----------------------------------------------------------------------------
(* Properties *)

\* The innermost call is about to return.
Returning == status = "running" /\ frames # <<>> /\ Finished(Top)

\* The leaf Command of the instruction at list position k (no arguments,
\* no EXTENDED_ARG merged into it).
LeafCommand(k) ==
    Command(IF At(k).arg = <<>> THEN OpType(At(k).opname, <<>>)
            ELSE OpType(At(k).opname, At(k).argval),
            At(k).offset)

\* The instruction at position k is an operation of the registry that is
\* neither a block opener nor a block closer nor an EXTENDED_ARG.
PlainOp(k) ==
    /\ At(k).opname \in OpNames
    /\ At(k).opname # "EXTENDED_ARG"
    /\ ~LeafCommand(k).operation.start_block
    /\ ~LeafCommand(k).operation.end_block

\* ... and it consumes nothing.
ZeroConsumer(k) == PlainOp(k) /\ LeafCommand(k).operation.consume_count = 0

\* ... and it produces one value.
Producer(k) == ZeroConsumer(k) /\ LeafCommand(k).operation.product_count = 1

IsOpener(k) == At(k).opname \in OpNames /\ LeafCommand(k).operation.start_block
IsCloser(k) == At(k).opname \in OpNames /\ LeafCommand(k).operation.end_block

(* ---- C8 ---- *)

\* The next call reads an instruction whose opcode name has no class.
UnknownNext ==
    /\ NextCall # <<>>
    /\ InRange(NextCall[1] - 1)
    /\ At(NextCall[1] - 1).opname \notin OpNames

\* C8: when the instruction a call of extract_command looks up has an
\* opcode name without a registry entry, that call fails at once with the
\* lookup's error (AttributeError, the code's UnsupportedOperation), every
\* enclosing call is abandoned with it, nothing is added to the collected
\* commands, and the code unit never gets an output.
C8_UnknownOpcode ==
    /\ [][UnknownNext =>
            /\ status' = "AttributeError"
            /\ frames' = <<>>
            /\ commands' = commands
            /\ consumed' = consumed]_vars
    /\ [](status = "AttributeError" => frames = <<>> /\ output = <<>>)
    /\ [](status = "done" =>
            \A k \in 1..Len(consumed) : At(consumed[k]).opname \in OpNames)

\* An unknown opcode met by a nested call: no command had been collected
\* yet, and the outermost call had already consumed instructions (the
\* failing call itself consumes none), so an active call was abandoned.
C8_Witness ==
    /\ status = "AttributeError"
    /\ commands = <<>>
    /\ Len(consumed) >= 1

(* ---- C7 ---- *)

\* The whole list is n producers (consume 0, produce 1) followed by one
\* plain operation that consumes n and produces 1.
SimpleExpression ==
    /\ \A k \in 0..(Size - 2) : Producer(k)
    /\ PlainOp(Size - 1)
    /\ LeafCommand(Size - 1).operation.consume_count = Size - 1
    /\ LeafCommand(Size - 1).operation.product_count = 1

\* What extract_command(instructions, len) hands the driver for a simple
\* expression: the final operation over the n leaves in original order,
\* and cursor 0.
SimpleTree ==
    /\ status \in {"running", "done"}
    /\ \A k \in 1..Len(frames) : frames[k].start >= 1
    /\ commands # <<>> =>
          /\ cursor = 0
          /\ commands = <<[LeafCommand(Size - 1) EXCEPT
                             !.arguments = [k \in 1..(Size - 1) |-> LeafCommand(k - 1)]]>>
    /\ status = "done" => output = commands

\* C7 as amended: the tree is as claimed, and by lines 37-43 the root's
\* product_count is n + 1 (its own 1 plus 1 per leaf) and its
\* consume_count is n, so that consume_count - product_count = -1.
C7_SimpleExpressionTree ==
    SimpleExpression =>
        /\ SimpleTree
        /\ commands # <<>> =>
              /\ product_count(commands[1]) = Size
              /\ consume_count(commands[1]) = Size - 1

\* C7 as stated: the same tree, with the root's produceCount equal to 1
\* and its consumption closed by its arguments (balance 0).
C7_Original ==
    SimpleExpression =>
        /\ SimpleTree
        /\ commands # <<>> =>
              /\ product_count(commands[1]) = 1
              /\ commands[1].operation.consume_count
                    + SumSeq([k \in 1..Len(commands[1].arguments) |->
                                consume_count(commands[1].arguments[k])
                                    - product_count(commands[1].arguments[k])]) = 0

\* The driver has finished on [leaf, leaf, op consuming 2].
C7_Witness ==
    /\ SimpleExpression
    /\ Size = 3
    /\ status = "done"
    /\ Len(output) = 1
    /\ Len(output[1].arguments) = 2

(* ---- C4 ---- *)

\* Positions o < c hold a block opener and a block closer with nothing but
\* zero-consumption plain operations (at least one) in between.
BlockRun(o, c) ==
    /\ 0 <= o /\ o + 1 < c /\ c < Size
    /\ IsOpener(o)
    /\ IsCloser(c)
    /\ \A k \in (o + 1)..(c - 1) : ZeroConsumer(k)

\* The call made just past the closer of a block run is about to return.
ClosingRun(o, c) == Returning /\ Top.start = c + 1 /\ BlockRun(o, c)

\* The Command for the closer with exactly the leaves as arguments, the
\* opener dropped.
Absorbed(o, c) ==
    /\ ReturnValue(Top).cmd =
          [LeafCommand(c) EXCEPT
             !.arguments = [k \in 1..(c - o - 1) |-> LeafCommand(o + k)]]
    /\ At(o).offset \in discarded

\* C4 as amended: the call just past close-block returns the closer's
\* Command with arguments [L1, ..., Ln] in order and no Command for the
\* opener; the returned cursor is the position of open-block, or the
\* position of the EXTENDED_ARG merged into open-block when one
\* immediately precedes it.
C4_BlockAbsorption ==
    \A o \in 0..(Size - 1) : \A c \in 0..(Size - 1) :
        ClosingRun(o, c) =>
            /\ Absorbed(o, c)
            /\ ReturnValue(Top).i = IF Preceded(o) THEN o - 1 ELSE o

\* C4 as stated: the returned cursor is the position of open-block.
C4_Original ==
    \A o \in 0..(Size - 1) : \A c \in 0..(Size - 1) :
        ClosingRun(o, c) =>
            /\ Absorbed(o, c)
            /\ ReturnValue(Top).i = o

\* A closer returns over [open, L1, L2, close].
C4_Witness ==
    \E o \in 0..(Size - 1) : \E c \in 0..(Size - 1) :
        ClosingRun(o, c) /\ c - o = 3

(* ---- C1 ---- *)

\* A forward pass over positions k .. Size-1 with `depth` values on the
\* stack and `blocks` blocks open: every opcode is known, an EXTENDED_ARG
\* is followed by the argument-carrying instruction it extends, every
\* plain operation finds its operands on the stack, and every block
\* closer finds a block open.
RECURSIVE Forward(_, _, _)
Forward(k, depth, blocks) ==
    IF k = Size THEN TRUE
    ELSE IF At(k).opname \notin OpNames THEN FALSE
    ELSE IF At(k).opname = "EXTENDED_ARG"
         THEN /\ k + 1 < Size
              /\ At(k + 1).arg # <<>>
              /\ At(k + 1).opname # "EXTENDED_ARG"
              /\ Forward(k + 1, depth, blocks)
    ELSE LET op == NewCommand(k + 1).operation IN
         IF op.end_block THEN blocks > 0 /\ Forward(k + 1, depth, blocks - 1)
         ELSE IF op.start_block THEN Forward(k + 1, depth, blocks + 1)
         ELSE /\ depth >= op.consume_count
              /\ Forward(k + 1, depth - op.consume_count + op.product_count, blocks)

WellFormed == Forward(0, 0, 0)

RECURSIVE Concat(_)
Concat(ss) == IF ss = <<>> THEN <<>> ELSE Head(ss) \o Concat(Tail(ss))

\* The offsets of the nodes of a command tree, root first.
RECURSIVE NodeOffsets(_)
NodeOffsets(c) ==
    <<c.offset>> \o Concat([k \in 1..Len(c.arguments) |-> NodeOffsets(c.arguments[k])])

Range(s) == {s[k] : k \in 1..Len(s)}

\* Every list position was consumed once, and is the root of exactly one
\* Command node, a merged EXTENDED_ARG or a discarded block opener.
Accounted ==
    LET nodes == Concat([k \in 1..Len(output) |-> NodeOffsets(output[k])])
        merged == {k \in 0..(Size - 1) : At(k).opname = "EXTENDED_ARG"}
    IN  /\ Len(consumed) = Size
        /\ Range(consumed) = 0..(Size - 1)
        /\ Len(nodes) + Cardinality(merged) + Cardinality(discarded) = Size
        /\ Range(nodes) \cup merged \cup discarded = 0..(Size - 1)

\* C1: on a well-formed instruction list the driver's cursor never goes
\* negative, no call fails, the working index of a call never drops below
\* 0, and when the driver stops (cursor 0) every instruction is accounted
\* for exactly once.
C1_FullCoverage ==
    WellFormed =>
        /\ status \in {"running", "done"}
        /\ cursor >= 0
        /\ \A k \in 1..Len(frames) : frames[k].i >= 0
        /\ status = "done" => Accounted

(* ---- C2 ---- *)

\* The arguments' offsets increase left to right and stay below the
\* command's own offset.
Ordered(c) ==
    /\ \A k \in 1..Len(c.arguments) : c.arguments[k].offset < c.offset
    /\ \A j \in 1..Len(c.arguments) : \A k \in 1..Len(c.arguments) :
          j < k => c.arguments[j].offset < c.arguments[k].offset

\* C2: every Command a call of extract_command returns (a call at any
\* depth, from either loop) has its arguments in strictly increasing
\* offset order, all below its own offset.
C2_OrderPreservation == Returning => Ordered(ReturnValue(Top).cmd)

(* ---- C3 ---- *)

\* operation.consume_count + sum of (argument.consume_count -
\* argument.product_count), recomputed from the tree.
Balance(c) ==
    c.operation.consume_count
        + SumSeq([k \in 1..Len(c.arguments) |->
                    consume_count(c.arguments[k]) - product_count(c.arguments[k])])

\* C3: a call in the stack-balance branch returns with a balance of
\* exactly zero, never below it.
C3_StackBalanceClosure ==
    (Returning /\ Top.branch = "stack") =>
        /\ Top.stack = 0
        /\ Balance(ReturnValue(Top).cmd) = 0

(* ---- C5 ---- *)

\* Python's high << shift.
RECURSIVE ShiftLeft(_, _)
ShiftLeft(v, shift) == IF shift = 0 THEN v ELSE ShiftLeft(2 * v, shift - 1)

\* The call that built frame f read an argument-carrying instruction at a
\* position immediately preceded by an EXTENDED_ARG.
Extended(f) ==
    /\ f.start >= 1
    /\ Preceded(f.start - 1)
    /\ At(f.start - 1).arg # <<>>

\* C5: such a call builds one Command whose operation argument is
\* (high << shift) | low for the width of the low field (any positive
\* width up to 16 bits is accepted here; the claim's example has 8), and
\* its working index has moved past both instructions.
C5_ExtendedArgMerging ==
    \A n \in 1..Len(frames) :
        Extended(frames[n]) =>
            LET f == frames[n]
                low == At(f.start - 1).argval[1]
                high == At(f.start - 2).argval[1]
            IN  /\ f.cmd.offset = At(f.start - 1).offset
                /\ f.i <= f.start - 2
                /\ \E shift \in 1..16 :
                      f.cmd.operation.argument = <<BitOr(ShiftLeft(high, shift), low)>>

(* ---- C6 ---- *)

\* A gathering loop still needs a child while the working index is at the
\* start of the list.
Underflow ==
    /\ status = "running"
    /\ frames # <<>>
    /\ ~Finished(Top)
    /\ Top.i <= 0

\* C6: at an underflow the call fails (the step taken raises an error and
\* nothing is returned): no instruction is read and no call goes on.
C6_StructuralUnderflow ==
    [][Underflow =>
          /\ status' \notin {"running", "done"}
          /\ frames' = <<>>
          /\ consumed' = consumed]_vars

(* ---- C9 ---- *)

\* Blocks open before position k.
OpenAt(k) ==
    Cardinality({j \in 0..(k - 1) : IsOpener(j)})
        - Cardinality({j \in 0..(k - 1) : IsCloser(j)})

\* Openers and closers pair up like brackets.
ProperlyNested ==
    /\ \A k \in 0..(Size - 1) : IsCloser(k) => OpenAt(k) >= 1
    /\ OpenAt(Size) = 0

\* The opener that the closer at position c closes.
Match(c) ==
    CHOOSE o \in 0..(c - 1) :
        /\ IsOpener(o)
        /\ OpenAt(o) = OpenAt(c) - 1
        /\ \A j \in (o + 1)..(c - 1) : IsOpener(j) => OpenAt(j) # OpenAt(c) - 1

\* C9: in a well-formed, properly nested list, the search of a closer
\* called at position c + 1 stays above its own opener until it stops
\* there: while searching its working index is past Match(c), once
\* stopped it is at Match(c) (or at the EXTENDED_ARG merged into that
\* opener), and the blocks it swallowed are children rooted at closers.
C9_NestedBlocks ==
    (WellFormed /\ ProperlyNested) =>
        \A n \in 1..Len(frames) :
            LET f == frames[n] IN
            (f.branch = "end_block" /\ f.start >= 1) =>
                /\ ~f.found_start => f.i > Match(f.start - 1)
                /\ f.found_start =>
                      /\ f.i = IndexAfter(Match(f.start - 1) + 1)
                      /\ At(Match(f.start - 1)).offset \in discarded
                /\ \A k \in 1..Len(f.cmd.arguments) :
                      ~f.cmd.arguments[k].operation.start_block

(* ---- C10 ---- *)

\* The list positions consumed since frame f was called.
ReadsSince(f) == SubSeq(consumed, f.mark + 1, Len(consumed))

\* C10: a call made with cursor 1 <= i <= len that returns (j, cmd) has
\* 0 <= j < i and has consumed exactly the positions j .. i-1, once each;
\* every call it made along the way was made with a cursor above 0.
C10_CursorProgress ==
    /\ \A n \in 2..Len(frames) : frames[1].start >= 1 => frames[n].start > 0
    /\ (Returning /\ Top.start >= 1) =>
          /\ 0 <= Top.i /\ Top.i < Top.start
          /\ Len(ReadsSince(Top)) = Top.start - Top.i
          /\ Range(ReadsSince(Top)) = Top.i..(Top.start - 1)

====
